---- MODULE Spec2Model ----
(***************************************************************************)
(* Model of spy_app.py ("Stratagem AI"): a Streamlit script that resolves  *)
(* two API keys, renders two inputs and a button, and on a button press    *)
(* hands three tool functions (web_search, get_stock_info,                 *)
(* scrape_pricing_page) to a hosted agent loop and renders its answer.     *)
(*                                                                         *)
(* Strings the code builds are sequences of one-character strings, so that *)
(* lengths, prefixes, line splitting and the [:5000] slice are computed.   *)
(* Strings the code only passes along (widget values, tool arguments,      *)
(* report texts) are atomic.                                               *)
(***************************************************************************)
EXTENDS Integers, Sequences, FiniteSets, TLC

\* ------------------------------------------------------------------ bounds

\* Most tool calls the agent loop makes in one agent.chat call.
MaxToolCalls == 2
\* Longest tail of free characters appended to a page's padding.
MaxSufLen == 3

\* ------------------------------------------------------ program constants

\* scrape_pricing_page's slice [:5000].
MaxChars == 5000

\* Python's None where the other values are strings.
None == "None"

\* Python's None where the other values are records, and a value that is there.
Nothing == [nothing |-> TRUE]

Some(v) == [some |-> v]

KeyNames == {"OPENAI_API_KEY", "TAVILY_API_KEY"}

ToolNames == {"web_search", "get_stock_info", "scrape_pricing_page"}

\* The objectives of st.pills (two of the four labels; the default first).
Goals == {"General Analysis", "Find Weaknesses"}

DefaultTarget == "Nvidia"

DefaultGoal == "General Analysis"

\* Values of the text input: empty, whitespace-only, a name.
Targets == {"", " ", "Nvidia"}

\* Arguments the agent loop passes to a tool.
ToolArgs == {"NVDA", "https://nvidia.com/pricing"}

\* Final answers of the agent loop (response.response).
Reports == {"## Nvidia\nStrategic Verdict: hold", "## Strategic Verdict"}

\* --------------------------------------------------------- text operators

Rep(c, n) == [i \in 1..n |-> c]

\* The one element of a singleton. An operator below that reads a parameter
\* many times takes it as the element of a singleton, so that it is
\* evaluated once.
Only(S) == CHOOSE x \in S : TRUE

MinOf(S) == Only({x \in S : \A y \in S : x <= y})

\* Python's str.isspace for the characters of the model.
IsSpace(c) == c \in {" ", "\n", "\t"}

\* Python's str.strip(): without leading and trailing whitespace.
Strip(str) ==
    Only({ LET n == Len(s)
               lead == CHOOSE k \in 0..n :
                           /\ \A j \in 1..k : IsSpace(s[j])
                           /\ (k = n \/ ~IsSpace(s[k + 1]))
               trail == CHOOSE k \in 0..n :
                           /\ \A j \in 1..k : IsSpace(s[n + 1 - j])
                           /\ (k = n \/ ~IsSpace(s[n - k]))
           IN  IF lead = n THEN <<>> ELSE SubSeq(s, lead + 1, n - trail)
           : s \in {str} })

RECURSIVE SplitFrom(_, _, _, _, _)
\* The pieces of t from position start on, cut at the separators of width w
\* that begin at the positions seps, left to right; keepLast tells whether
\* an empty piece after the last separator counts.
SplitFrom(text, positions, w, from, keepLast) ==
    Only({ IF start > Len(t) /\ ~keepLast THEN <<>>
           ELSE IF later = {} THEN <<SubSeq(t, start, Len(t))>>
           ELSE Only({ <<SubSeq(t, start, cut - 1)>>
                           \o SplitFrom(t, later, w, cut + w, keepLast)
                       : cut \in {MinOf(later)} })
           : t \in {text}, start \in {from},
             later \in {{i \in positions : i >= from}} })

\* Python's str.splitlines(): the lines of t, no empty line after a final "\n".
SplitLines(text) ==
    Only({ SplitFrom(t, {i \in 1..Len(t) : t[i] = "\n"}, 1, 1, FALSE)
           : t \in {text} })

\* Python's str.split("  "): cut at each run of two spaces, left to right.
SplitTwoSpaces(text) ==
    Only({ SplitFrom(t, {i \in 1..(Len(t) - 1) : t[i] = " " /\ t[i + 1] = " "},
                     2, 1, TRUE)
           : t \in {text} })

\* str.split("\n"): every piece between newlines, the empty ones included.
SplitNewline(text) ==
    Only({ SplitFrom(t, {i \in 1..Len(t) : t[i] = "\n"}, 1, 1, TRUE)
           : t \in {text} })

RECURSIVE Join(_, _)
\* Python's sep.join(parts).
Join(parts, sep) ==
    Only({ IF ps = <<>> THEN <<>>
           ELSE IF Len(ps) = 1 THEN ps[1]
           ELSE ps[1] \o sep \o Join(Tail(ps), sep)
           : ps \in {parts} })

RECURSIVE Flatten(_)
Flatten(seqs) ==
    Only({ IF ss = <<>> THEN <<>> ELSE ss[1] \o Flatten(Tail(ss))
           : ss \in {seqs} })

\* Python's s[:n].
Slice(str, n) ==
    Only({ SubSeq(s, 1, IF Len(s) < n THEN Len(s) ELSE n) : s \in {str} })

IsPrefix(p, s) == Len(p) <= Len(s) /\ SubSeq(s, 1, Len(p)) = p

\* ------------------------------------------------------- the three tools

SearchFailed == <<"S", "e", "a", "r", "c", "h", " ", "f", "a", "i", "l", "e", "d", ":", " ">>

StockFetchFailed ==
    <<"S", "t", "o", "c", "k", " ", "f", "e", "t", "c", "h", " ",
      "f", "a", "i", "l", "e", "d", ":", " ">>

ErrorScraping ==
    <<"E", "r", "r", "o", "r", " ", "s", "c", "r", "a", "p", "i", "n", "g", ":", " ">>

NA == <<"N", "/", "A">>

\* The outcome of a provider call or of a block of code: a value, or an
\* exception with its message (str(e)).
Value(v) == [raised |-> FALSE, val |-> v]

Raise(msg) == [raised |-> TRUE, val |-> msg]

\* The string of each tool's "except Exception as e" branch, without {e}.
Prefix(fn) ==
    CASE fn = "web_search" -> SearchFailed
      [] fn = "get_stock_info" -> StockFetchFailed
      [] fn = "scrape_pricing_page" -> ErrorScraping

ExceptReturnBare(fn, msg) == msg

\* return f"Search failed: {e}" and its two siblings.
ExceptReturn(fn, msg) == Prefix(fn) \o msg

CatchesNothing(fn) == FALSE

\* "except Exception" encloses the provider call and the formatting of each
\* tool.
Catches(fn) == TRUE

\* str(KeyError(k)) is the key's repr.
KeyErrorMsg(k) == <<"'">> \o k \o <<"'">>

ResultsKey == <<"r", "e", "s", "u", "l", "t", "s">>

ContentKey == <<"c", "o", "n", "t", "e", "n", "t">>

\* web_search after tavily.search returned: the contents joined by blank
\* lines; a response without "results", or a result without "content", is a
\* KeyError inside the try block.
web_search_body(response) ==
    IF "results" \notin DOMAIN response THEN Raise(KeyErrorMsg(ResultsKey))
    ELSE Only({ IF \E i \in DOMAIN results : "content" \notin DOMAIN results[i]
                THEN Raise(KeyErrorMsg(ContentKey))
                ELSE Value(Join([i \in DOMAIN results |-> results[i].content],
                                <<"\n", "\n">>))
                : results \in {response.results} })

GetNoDefault(info, key, default) == IF key \in DOMAIN info THEN info[key] ELSE <<>>

\* dict.get(key, default).
Get(info, key, default) == IF key \in DOMAIN info THEN info[key] ELSE default

Indent == Rep(" ", 8)

CurrentPriceLabel ==
    <<"C", "u", "r", "r", "e", "n", "t", " ", "P", "r", "i", "c", "e", ":", " ", "$">>

MarketCapLabel == <<"M", "a", "r", "k", "e", "t", " ", "C", "a", "p", ":", " ", "$">>

WeekHighLabel ==
    <<"5", "2", " ", "W", "e", "e", "k", " ", "H", "i", "g", "h", ":", " ", "$">>

RecommendationLabel ==
    <<"R", "e", "c", "o", "m", "m", "e", "n", "d", "a", "t", "i", "o", "n", ":", " ">>

\* get_stock_info after stock.info was read: the triple-quoted f-string,
\* which opens with a newline and closes after the indentation of its last
\* line.
get_stock_info_body(info) ==
    Value(<<"\n">>
          \o Indent
          \o CurrentPriceLabel
          \o Get(info, "currentPrice", NA) \o <<"\n">>
          \o Indent
          \o MarketCapLabel
          \o Get(info, "marketCap", NA) \o <<"\n">>
          \o Indent
          \o WeekHighLabel
          \o Get(info, "fiftyTwoWeekHigh", NA) \o <<"\n">>
          \o Indent
          \o RecommendationLabel
          \o Get(info, "recommendationKey", NA) \o <<"\n">>
          \o Indent)

\* A fetched page is the sequence of its elements, each a tag and its text.
\* for script in soup(["script", "style"]): script.decompose()
Decompose(doc) == SelectSeq(doc, LAMBDA n : n.tag \notin {"script", "style"})

\* soup.get_text(): the text of the remaining elements, concatenated.
GetText(soup) == Flatten([i \in DOMAIN soup |-> soup[i].text])

\* lines = (line.strip() for line in text.splitlines())
\* chunks = (phrase.strip() for line in lines for phrase in line.split("  "))
Phrases(line) ==
    Only({ [j \in DOMAIN ps |-> Strip(ps[j])] : ps \in {SplitTwoSpaces(line)} })

Chunks(text) ==
    Only({ Flatten([i \in DOMAIN ls |-> Phrases(Strip(ls[i]))])
           : ls \in {SplitLines(text)} })

CleanText(text) == Join(SelectSeq(Chunks(text), LAMBDA c : c # <<>>), <<"\n">>)

\* scrape_pricing_page after requests.get returned: parse, drop script and
\* style, clean the text, cut at 5000 characters.
scrape_pricing_page_body(doc) ==
    Value(Slice(CleanText(GetText(Decompose(doc))), MaxChars))

\* The try block of tool fn after its provider call returned resp.
TryBody(fn, resp) ==
    CASE fn = "web_search" -> web_search_body(resp)
      [] fn = "get_stock_info" -> get_stock_info_body(resp)
      [] fn = "scrape_pricing_page" -> scrape_pricing_page_body(resp)

\* ------------------------------------------------- what the providers give

TimedOut == <<"t", "i", "m", "e", "d", " ", "o", "u", "t">>

\* Messages of the exceptions a provider raises (the empty one: Exception()).
ErrMsgs == {TimedOut, <<>>}

News == <<"n", "e", "w", "s">>

Leak == <<"l", "e", "a", "k">>

SearchResponses ==
    { [results |-> <<>>],
      [results |-> <<[content |-> News]>>],
      [results |-> <<[content |-> News], [content |-> Leak]>>],
      [results |-> <<[url |-> News]>>],
      [detail |-> Leak] }

StockFields == {"currentPrice", "marketCap", "fiftyTwoWeekHigh", "recommendationKey"}

FieldText(k) ==
    CASE k = "currentPrice" -> <<"9", ".", "5">>
      [] k = "marketCap" -> <<"3", "0", "0">>
      [] k = "fiftyTwoWeekHigh" -> <<"1", "2">>
      [] k = "recommendationKey" -> <<"b", "u", "y">>

\* stock.info with any subset of the four fields present.
StockInfos == {[k \in ks |-> FieldText(k)] : ks \in SUBSET StockFields}

Node(tag, text) == [tag |-> tag, text |-> text]

RECURSIVE SeqsUpTo(_, _)
\* The sequences over S of length at most n.
SeqsUpTo(S, n) ==
    IF n = 0 THEN {<<>>}
    ELSE LET shorter == SeqsUpTo(S, n - 1)
         IN  shorter \cup {Append(s, c) : s \in shorter, c \in S}

\* Page texts: a padding of "a" followed by a short tail over letter, space
\* and newline.
PageText(pad, tail) == Rep("a", pad) \o tail

ScriptText == <<"s", "\n", " ", "s">>

\* A page: its visible text in one element, with or without a script element
\* before it and a style element after it.
Page(text, scripted) ==
    IF scripted
    THEN <<Node("script", ScriptText), Node("p", text), Node("style", <<"s">>)>>
    ELSE <<Node("p", text)>>

SmallPages ==
    {Page(PageText(pad, tail), scripted) :
        pad \in {0, 1}, tail \in {<<>>, <<" ", " ", "a">>, <<"\n", "\n", "a">>},
        scripted \in BOOLEAN}

\* Paddings that put the tail before, on and after the 5000th character.
Pads == {0, 1} \cup ((MaxChars - 3)..MaxChars)

LargePages ==
    {Page(PageText(pad, tail), scripted) :
        pad \in Pads, tail \in SeqsUpTo({"a", " ", "\n"}, MaxSufLen),
        scripted \in BOOLEAN}

\* Messages of requests' exceptions, which quote the URL: of any length.
LongErrMsgs == {Rep("x", n) : n \in {0, 1, MaxChars - 16, MaxChars - 15}}

\* What the provider of tool fn may do in a run of the application.
Outcomes(fn) ==
    {Raise(m) : m \in ErrMsgs} \cup
    CASE fn = "web_search" -> {Value(r) : r \in SearchResponses}
      [] fn = "get_stock_info" -> {Value(i) : i \in StockInfos}
      [] fn = "scrape_pricing_page" -> {Value(p) : p \in SmallPages}

\* What requests.get may do when pages and messages of every size count.
LargeOutcomes == {Raise(m) : m \in LongErrMsgs} \cup {Value(p) : p \in LargePages}

\* ------------------------------------------------------------------ state

VARIABLES
    osenv,           \* the keys the process environment holds (after load_dotenv)
    secrets,         \* the keys st.secrets holds
    strictClient,    \* the installed TavilyClient rejects a missing key
    target_company,  \* value of the text input
    mission_goal,    \* value of the pills
    start_btn,       \* whether this script run was started by the button
    pc,              \* where the script run is
    openai_key,
    tavily_key,
    llm,
    tavily,
    display,         \* the elements the script run has rendered
    agent,           \* the OpenAIAgent of this run and what its session holds
    chatCalls,       \* agent.chat calls made by this script run
    active,          \* the tool calls that are executing
    toast,           \* the notification on screen
    lastResult,      \* what the last tool call gave the agent loop
    response,        \* the agent's answer
    download,        \* the export button's payload
    fault            \* the exception that ended the script run

envVars == <<osenv, secrets, strictClient>>

widgetVars == <<target_company, mission_goal, start_btn>>

keyVars == <<openai_key, tavily_key, llm, tavily>>

loopVars == <<agent, chatCalls, active, toast, lastResult>>

outVars == <<response, download>>

vars == <<envVars, widgetVars, pc, keyVars, display, loopVars, outVars, fault>>

KeyValue == "sk-key"

\* os.getenv(name)
Getenv(name) == IF name \in osenv THEN KeyValue ELSE None

ErrorMissingKeys == "error: Missing API Keys! Please check your .env file."

Inputs == {"target_input", "objective_pills", "start_button"}

WarningHalted == "warning: Protocol Halted: Please define a Target Asset."

RunElementsCompleteEarly ==
    {"divider", "status: Stratagem Active", "Initializing Agents...",
     "status: Analysis Complete"}

\* Lines 154-161: what a run renders before the agent is built.
RunElements == {"divider", "status: Stratagem Active", "Initializing Agents..."}

\* Lines 186-212: what a run renders after agent.chat returned.
ReportElements == {"status: Analysis Complete", "dossier", "report", "export_button"}

\* A script run starts with nothing rendered and nothing constructed.
FreshRun ==
    /\ pc = "keys"
    /\ openai_key = None /\ tavily_key = None /\ llm = Nothing /\ tavily = Nothing
    /\ display = {}
    /\ agent = Nothing /\ chatCalls = 0 /\ active = {} /\ toast = Nothing
    /\ lastResult = Nothing
    /\ response = None /\ download = Nothing
    /\ fault = None

Init ==
    /\ osenv \in SUBSET KeyNames
    /\ secrets \in SUBSET KeyNames
    /\ strictClient \in BOOLEAN
    /\ target_company = DefaultTarget
    /\ mission_goal = DefaultGoal
    /\ start_btn = FALSE
    /\ FreshRun

\* ---------------------------------------------------------------- startup

\* Lines 62-71: the keys from the environment; when the first is missing,
\* both from the secrets if the first is there, else the error and st.stop().
\* The second key is not looked at.
ResolveKeys ==
    /\ pc = "keys"
    /\ IF Getenv("OPENAI_API_KEY") # None
       THEN /\ openai_key' = Getenv("OPENAI_API_KEY")
            /\ tavily_key' = Getenv("TAVILY_API_KEY")
            /\ pc' = "clients"
            /\ UNCHANGED <<display, fault>>
       ELSE IF "OPENAI_API_KEY" \in secrets
       THEN /\ openai_key' = KeyValue
            /\ IF "TAVILY_API_KEY" \in secrets
               THEN /\ tavily_key' = KeyValue
                    /\ pc' = "clients"
                    /\ fault' = fault
               ELSE \* st.secrets["TAVILY_API_KEY"] raises
                    /\ tavily_key' = Getenv("TAVILY_API_KEY")
                    /\ pc' = "crashed"
                    /\ fault' = "KeyError"
            /\ UNCHANGED display
       ELSE /\ openai_key' = None
            /\ tavily_key' = Getenv("TAVILY_API_KEY")
            /\ display' = display \cup {ErrorMissingKeys}
            /\ pc' = "halted"
            /\ fault' = fault
    /\ UNCHANGED <<envVars, widgetVars, llm, tavily, loopVars, outVars>>

\* Lines 73-74: the two clients. TavilyClient(api_key=None) raises in the
\* releases that check the key and constructs in those that do not.
BuildClients ==
    /\ pc = "clients"
    /\ llm' = [model |-> "gpt-4o-mini", api_key |-> openai_key]
    /\ IF tavily_key = None /\ strictClient
       THEN /\ tavily' = Nothing
            /\ pc' = "crashed"
            /\ fault' = "MissingAPIKeyError"
       ELSE /\ tavily' = [api_key |-> tavily_key]
            /\ pc' = "ui"
            /\ fault' = fault
    /\ UNCHANGED <<envVars, widgetVars, openai_key, tavily_key, display,
                   loopVars, outVars>>

\* Lines 123-148: the sidebar inputs, the button, the title.
RenderUI ==
    /\ pc = "ui"
    /\ display' = display \cup Inputs \cup {"title"}
    /\ pc' = "validate"
    /\ UNCHANGED <<envVars, widgetVars, keyVars, loopVars, outVars, fault>>

\* ------------------------------------------------------- main agent logic

RunBranchStripped == start_btn /\ target_company \notin {"", " "}

\* Line 152: if start_btn and target_company (a non-empty string is truthy).
RunBranch == start_btn /\ target_company # ""

\* Line 214: elif start_btn and not target_company.
WarnBranch == start_btn /\ target_company = ""

\* OpenAIAgent.from_tools(...): a new session, no tool call made in it.
NewAgent == [calls |-> 0, failed |-> 0]

\* Lines 152-184, to the call of agent.chat: the status box, the tools, a
\* new agent, and the one call of agent.chat, which blocks the script.
StartRun ==
    /\ pc = "validate"
    /\ RunBranch
    /\ display' = display \cup RunElements
    /\ agent' = NewAgent
    /\ chatCalls' = chatCalls + 1
    /\ pc' = "chat"
    /\ UNCHANGED <<envVars, widgetVars, keyVars, active, toast, lastResult,
                   outVars, fault>>

\* Lines 214-215.
WarnEmptyTarget ==
    /\ pc = "validate"
    /\ ~RunBranch
    /\ WarnBranch
    /\ display' = display \cup {WarningHalted}
    /\ pc' = "done"
    /\ UNCHANGED <<envVars, widgetVars, keyVars, loopVars, outVars, fault>>

\* Neither branch: the script run ends with the inputs on screen.
NoAction ==
    /\ pc = "validate"
    /\ ~RunBranch
    /\ ~WarnBranch
    /\ pc' = "done"
    /\ UNCHANGED <<envVars, widgetVars, keyVars, display, loopVars, outVars, fault>>

\* ---------------------------------------------------------- the agent loop

LoopDispatchesAtOnce == TRUE

\* agent.chat runs its tool calls synchronously: the loop makes a call only
\* when no call is executing.
LoopWaiting == active = {}

\* The loop has taken in the last tool result (or there is none).
Delivered == IF lastResult = Nothing THEN TRUE ELSE lastResult.kind = "returned"

\* The agent loop calls tool fn with argument arg.
AgentCallsTool(fn, arg) ==
    /\ pc = "chat"
    /\ LoopWaiting
    /\ Delivered
    /\ agent.calls + Cardinality(active) < MaxToolCalls
    /\ active' = active \cup
           {[fn |-> fn, arg |-> arg, id |-> agent.calls + Cardinality(active) + 1,
             stage |-> "toast", toasts |-> 0, resp |-> Nothing]}
    /\ lastResult' = Nothing
    /\ UNCHANGED <<envVars, widgetVars, pc, keyVars, display, agent, chatCalls,
                   toast, outVars, fault>>

\* What a finished call leaves with the loop.
Result(c, kind, out, exc) ==
    [fn |-> c.fn, arg |-> c.arg, id |-> c.id, toasts |-> c.toasts,
     resp |-> c.resp, kind |-> kind, out |-> out, exc |-> exc]

\* The call c ends: it leaves the stack, its result is the loop's.
Finish(c, kind, out, exc) ==
    /\ active' = active \ {c}
    /\ lastResult' = Result(c, kind, out, exc)
    /\ agent' = [calls |-> agent.calls + 1,
                 failed |-> agent.failed + (IF exc = Nothing THEN 0 ELSE 1)]

\* Lines 81, 91, 106: st.toast(...), before the try block. When it raises,
\* the tool raises.
ToolToast(c, ok) ==
    /\ c \in active
    /\ c.stage = "toast"
    /\ IF ok
       THEN /\ toast' = [fn |-> c.fn, arg |-> c.arg]
            /\ active' = (active \ {c})
                   \cup {[c EXCEPT !.stage = "call", !.toasts = c.toasts + 1]}
            /\ UNCHANGED <<agent, lastResult>>
       ELSE /\ Finish(c, "raised", <<>>, Nothing)
            /\ toast' = toast
    /\ UNCHANGED <<envVars, widgetVars, pc, keyVars, display, chatCalls,
                   outVars, fault>>

\* An exception with message msg inside tool fn's try block.
OnException(c, msg) ==
    IF Catches(c.fn)
    THEN Finish(c, "returned", ExceptReturn(c.fn, msg), Some(msg))
    ELSE Finish(c, "raised", <<>>, Some(msg))

\* Lines 83, 93-94, 109: the provider call, which returns or raises.
ToolCallProvider(c, o) ==
    /\ c \in active
    /\ c.stage = "call"
    /\ IF o.raised
       THEN OnException(c, o.val)
       ELSE /\ active' = (active \ {c})
                   \cup {[c EXCEPT !.stage = "format", !.resp = Some(o.val)]}
            /\ UNCHANGED <<agent, lastResult>>
    /\ UNCHANGED <<envVars, widgetVars, pc, keyVars, display, chatCalls, toast,
                   outVars, fault>>

\* Lines 84-85, 95-100, 110-116: the rest of the try block.
ToolReturn(c) ==
    /\ c \in active
    /\ c.stage = "format"
    /\ \E r \in {TryBody(c.fn, c.resp.some)} :
           IF r.raised THEN OnException(c, r.val)
           ELSE Finish(c, "returned", r.val, Nothing)
    /\ UNCHANGED <<envVars, widgetVars, pc, keyVars, display, chatCalls, toast,
                   outVars, fault>>

\* A tool raised into the agent loop. The loop is the library's: the releases
\* that call the tool bare let the exception out of agent.chat.
ToolFaultPropagates ==
    /\ pc = "chat"
    /\ lastResult # Nothing
    /\ lastResult.kind = "raised"
    /\ pc' = "crashed"
    /\ fault' = "tool"
    /\ UNCHANGED <<envVars, widgetVars, keyVars, display, loopVars, outVars>>

\* The releases that wrap the tool call take the exception as the tool's
\* output and go on.
ToolFaultAbsorbed ==
    /\ pc = "chat"
    /\ lastResult # Nothing
    /\ lastResult.kind = "raised"
    /\ lastResult' = Nothing
    /\ UNCHANGED <<envVars, widgetVars, pc, keyVars, display, agent, chatCalls,
                   active, toast, outVars, fault>>

\* agent.chat raises (model API error, auth failure): nothing catches it.
ChatRaises ==
    /\ pc = "chat"
    /\ active = {}
    /\ Delivered
    /\ pc' = "crashed"
    /\ fault' = "session"
    /\ lastResult' = Nothing
    /\ UNCHANGED <<envVars, widgetVars, keyVars, display, agent, chatCalls,
                   active, toast, outVars>>

\* Lines 184-212: agent.chat returns; the status is completed, the dossier,
\* the answer and the export button are rendered.
ChatReturns(report) ==
    /\ pc = "chat"
    /\ active = {}
    /\ Delivered
    /\ response' = report
    /\ display' = display \cup ReportElements
    /\ download' = [data |-> report,
                    file_name |-> <<"Stratagem_", target_company, "_Report.md">>,
                    mime |-> "text/markdown"]
    /\ pc' = "done"
    /\ lastResult' = Nothing
    /\ UNCHANGED <<envVars, widgetVars, keyVars, agent, chatCalls, active,
                   toast, fault>>

\* ------------------------------------------------------------- the operator

\* Streamlit runs the script again from the top: nothing of the last script
\* run is kept but the widgets' values.
Rerun ==
    /\ pc' = "keys"
    /\ openai_key' = None /\ tavily_key' = None /\ llm' = Nothing /\ tavily' = Nothing
    /\ display' = {}
    /\ agent' = Nothing /\ chatCalls' = 0 /\ active' = {} /\ toast' = Nothing
    /\ lastResult' = Nothing
    /\ response' = None /\ download' = Nothing
    /\ fault' = None
    /\ UNCHANGED envVars

\* The script run is over and left the inputs on screen.
Interactive == pc \in {"done", "crashed"} /\ Inputs \subseteq display

\* The operator edits the target or picks another objective.
UserEdits(t, g) ==
    /\ Interactive
    /\ <<t, g>> # <<target_company, mission_goal>>
    /\ target_company' = t
    /\ mission_goal' = g
    /\ start_btn' = FALSE
    /\ Rerun

\* The operator presses "Initialize Stratagem".
UserPresses ==
    /\ Interactive
    /\ start_btn' = TRUE
    /\ UNCHANGED <<target_company, mission_goal>>
    /\ Rerun

\* ------------------------------------------------------- the specifications

ScriptStep ==
    \/ ResolveKeys
    \/ BuildClients
    \/ RenderUI
    \/ StartRun
    \/ WarnEmptyTarget
    \/ NoAction
    \/ \E fn \in ToolNames, arg \in ToolArgs : AgentCallsTool(fn, arg)
    \/ \E c \in active, ok \in BOOLEAN : ToolToast(c, ok)
    \/ \E c \in active : \E o \in Outcomes(c.fn) : ToolCallProvider(c, o)
    \/ \E c \in active : ToolReturn(c)
    \/ ToolFaultPropagates
    \/ ToolFaultAbsorbed
    \/ ChatRaises
    \/ \E r \in Reports : ChatReturns(r)

UserStep ==
    \/ \E t \in Targets, g \in Goals : UserEdits(t, g)
    \/ UserPresses

Next == ScriptStep \/ UserStep

Spec == Init /\ [][Next]_vars

\* The script is one thread that runs to its end: a step it can take, it takes.
FairSpec == Spec /\ WF_vars(ScriptStep)

\* scrape_pricing_page called once by the agent loop of a run, with pages
\* and exception messages on both sides of 5000 characters.
InitScrape ==
    /\ osenv = KeyNames /\ secrets = {} /\ strictClient = TRUE
    /\ target_company = DefaultTarget
    /\ mission_goal = DefaultGoal
    /\ start_btn = TRUE
    /\ pc = "chat"
    /\ openai_key = KeyValue /\ tavily_key = KeyValue
    /\ llm = [model |-> "gpt-4o-mini", api_key |-> KeyValue]
    /\ tavily = [api_key |-> KeyValue]
    /\ display = Inputs \cup {"title"} \cup RunElements
    /\ agent = NewAgent /\ chatCalls = 1 /\ toast = Nothing /\ lastResult = Nothing
    /\ \E arg \in ToolArgs :
          active = {[fn |-> "scrape_pricing_page", arg |-> arg, id |-> 1,
                     stage |-> "toast", toasts |-> 0, resp |-> Nothing]}
    /\ response = None /\ download = Nothing
    /\ fault = None

NextScrape ==
    \/ \E c \in active, ok \in BOOLEAN : ToolToast(c, ok)
    \/ \E c \in active : \E o \in LargeOutcomes : ToolCallProvider(c, o)
    \/ \E c \in active : ToolReturn(c)

SpecScrape == InitScrape /\ [][NextScrape]_vars

\* The state of section 4.3 that the position of the script run stands for.
Phase ==
    CASE pc = "validate" /\ start_btn -> "Validating"
      [] pc = "chat" -> "Running"
      [] pc = "done" /\ response # None -> "Complete"
      [] pc = "crashed" /\ fault \in {"session", "tool"} -> "Error"
      [] OTHER -> "Idle"

\* ------------------------------------------------------------------ claims

\* A tool call ended and gave this to the agent loop.
Returned(fn) ==
    /\ lastResult # Nothing
    /\ lastResult.fn = fn
    /\ lastResult.kind = "returned"

\* C1: whenever an exception is raised inside the try block of a tool (by
\* the provider call or by the code after it), the tool returns; it does
\* not raise; and the string it returns is the tool's fixed prefix followed
\* by the exception's message.
C1_ErrorsBecomePrefixedStrings ==
    (lastResult # Nothing /\ lastResult.exc # Nothing) =>
        /\ lastResult.kind = "returned"
        /\ lastResult.out =
               (CASE lastResult.fn = "web_search" -> SearchFailed
                  [] lastResult.fn = "get_stock_info" -> StockFetchFailed
                  [] lastResult.fn = "scrape_pricing_page" -> ErrorScraping)
               \o lastResult.exc.some

\* C1's case: the page fetch timed out and scrape_pricing_page returned.
C1_Witness ==
    /\ Returned("scrape_pricing_page")
    /\ lastResult.exc = Some(TimedOut)
    /\ lastResult.out = ErrorScraping \o TimedOut

\* C2: a press with an empty target never constructs or calls the agent and
\* ends with the warning shown; a press with a non-empty target, a
\* whitespace-only one included, makes exactly one agent.chat call.
C2_OneChatPerPress ==
    /\ chatCalls <= 1
    /\ (start_btn /\ target_company = "") =>
           /\ agent = Nothing
           /\ chatCalls = 0
           /\ (pc = "done" => WarningHalted \in display)
    /\ (start_btn /\ target_company # "" /\ pc \in {"chat", "done", "crashed"}) =>
           /\ agent # Nothing
           /\ chatCalls = 1
    /\ ~start_btn => (agent = Nothing /\ chatCalls = 0)

\* C2's case: the press with a whitespace-only target ran the agent once.
C2_Witness ==
    /\ start_btn
    /\ target_company = " "
    /\ pc = "done"
    /\ chatCalls = 1
    /\ response \in Reports

\* C3: once the key setup is over, a key that is unresolved means that the
\* script showed the fixed error and stopped: no input rendered, no client
\* and no agent constructed.
C3_MissingKeyHalts ==
    (pc # "keys" /\ (openai_key = None \/ tavily_key = None)) =>
        /\ pc = "halted"
        /\ ErrorMissingKeys \in display
        /\ display \cap Inputs = {}
        /\ llm = Nothing
        /\ tavily = Nothing
        /\ agent = Nothing

\* C4: every string scrape_pricing_page returns, on the success path and on
\* the "Error scraping:" path, is at most 5000 characters long.
C4_ScrapeOutputAtMost5000 ==
    Returned("scrape_pricing_page") => Len(lastResult.out) <= 5000

\* A line that is not empty and has no whitespace at either end.
CleanLine(l) == l # <<>> /\ ~IsSpace(l[1]) /\ ~IsSpace(l[Len(l)])

\* C5: the successful output of scrape_pricing_page, split on newline, has
\* no empty line and only whitespace-trimmed lines (an output without any
\* character has no line), and no character of a script or style element.
C5_CleanLinesNoScript ==
    (Returned("scrape_pricing_page") /\ lastResult.exc = Nothing) =>
        LET out == lastResult.out
            ls == SplitNewline(out)
        IN  /\ out # <<>> => \A i \in DOMAIN ls : CleanLine(ls[i])
            /\ \A i \in DOMAIN out : out[i] # "s"

\* The text of field key in get_stock_info's output: the value of the
\* response, "N/A" when the response has none.
Rendered(info, key) == IF key \in DOMAIN info THEN info[key] ELSE <<"N", "/", "A">>

\* The four lines of get_stock_info's template, in their order.
FourLines(info) ==
    << CurrentPriceLabel \o Rendered(info, "currentPrice"),
       MarketCapLabel \o Rendered(info, "marketCap"),
       WeekHighLabel \o Rendered(info, "fiftyTwoWeekHigh"),
       RecommendationLabel \o Rendered(info, "recommendationKey") >>

StrippedLines(out) ==
    LET ls == SplitLines(out) IN [i \in DOMAIN ls |-> Strip(ls[i])]

\* C6 as stated: the string get_stock_info returns for a response consists
\* of exactly four lines, price, market cap, 52-week high, recommendation,
\* a missing field rendered as N/A.
C6_ExactlyFourLines ==
    (Returned("get_stock_info") /\ lastResult.exc = Nothing) =>
        StrippedLines(lastResult.out) = FourLines(lastResult.resp.some)

\* C6 as amended: the string get_stock_info returns has six lines: an empty
\* one, the four lines of price, market cap, 52-week high and recommendation
\* in that order, each indented and a missing field rendered as N/A, and a
\* last line of indentation only; so exactly four of its lines are not blank.
C6_FourLinesBetweenBlankOnes ==
    (Returned("get_stock_info") /\ lastResult.exc = Nothing) =>
        LET ls == SplitLines(lastResult.out)
            four == FourLines(lastResult.resp.some)
        IN  /\ Len(ls) = 6
            /\ ls[1] = <<>>
            /\ \A i \in 1..4 : ls[i + 1] = Rep(" ", 8) \o four[i]
            /\ ls[6] = Rep(" ", 8)
            /\ SelectSeq(StrippedLines(lastResult.out), LAMBDA l : l # <<>>) = four

\* C6's case: a response with the market cap alone.
C6_Witness ==
    /\ Returned("get_stock_info")
    /\ lastResult.exc = Nothing
    /\ DOMAIN lastResult.resp.some = {"marketCap"}

\* The report's elements on screen: success marker, dossier panel, report
\* text, export button.
ReportShown ==
    display \cap {"status: Analysis Complete", "dossier", "report", "export_button"}

\* C7: a run whose agent.chat call returned has one report, rendered whole
\* with its export; while the call runs and when it raised there is no
\* report and none of the report's elements on screen; and a run never
\* calls agent.chat a second time.
C7_ReportOrNothing ==
    /\ chatCalls <= 1
    /\ (pc = "done" /\ chatCalls = 1) =>
           /\ response \in Reports
           /\ Cardinality(ReportShown) = 4
           /\ download # Nothing
           /\ download.data = response
    /\ pc \in {"chat", "crashed"} =>
           /\ response = None
           /\ ReportShown = {}
           /\ download = Nothing
    /\ (pc = "crashed" /\ chatCalls = 1) => fault \in {"session", "tool"}

\* C7's case: agent.chat raised after the loop had made a tool call.
C7_Witness ==
    /\ pc = "crashed"
    /\ fault = "session"
    /\ chatCalls = 1
    /\ agent.calls >= 1

\* A provider exception never ends a run: the tool gives the prefixed string
\* to the agent loop, which goes on; a run that ended in a fault ended by a
\* fault of the session or of a tool that raised without any provider
\* exception.
C8_Safety ==
    /\ (lastResult # Nothing /\ lastResult.exc # Nothing) =>
           /\ lastResult.kind = "returned"
           /\ IsPrefix(Prefix(lastResult.fn), lastResult.out)
           /\ pc = "chat"
    /\ (pc = "crashed" /\ fault = "tool") => lastResult.exc = Nothing

\* C8: in a run whose tools' providers raise, each such tool call gives the
\* agent loop the prefixed string and the run goes on; the run ends, with
\* the report displayed unless the session itself (or a tool outside its
\* try block) faulted.
C8_ProviderFaultsDoNotAbort ==
    /\ []C8_Safety
    /\ (pc = "chat") ~>
           \/ (pc = "done" /\ "report" \in display)
           \/ (pc = "crashed" /\ fault \in {"session", "tool"})

\* C8's case: every tool call of the run failed in its provider, and the run
\* is complete with its report.
C8_Witness ==
    /\ pc = "done"
    /\ chatCalls = 1
    /\ agent.calls >= 2
    /\ agent.failed = agent.calls
    /\ "report" \in display
    /\ response \in Reports

\* C9: a tool call past its notification has emitted exactly one, naming the
\* tool and the argument, before the provider call; and every tool call ends
\* by returning a string, whether its notification succeeded or failed.
C9_ToastNeverAffectsControlFlow ==
    /\ \A c \in active :
           c.stage \in {"call", "format"} =>
               (c.toasts = 1 /\ toast = [fn |-> c.fn, arg |-> c.arg])
    /\ lastResult # Nothing => lastResult.kind = "returned"

AllowedPhaseSteps ==
    { <<"Idle", "Idle">>, <<"Idle", "Validating">>, <<"Validating", "Idle">>,
      <<"Validating", "Running">>, <<"Running", "Running">>,
      <<"Running", "Complete">>, <<"Running", "Error">>,
      <<"Complete", "Idle">>, <<"Error", "Idle">> }

\* At most one tool call executes, and only inside a running run; a run is
\* validated with no agent, no result and no report from before.
C10_Invariant ==
    /\ Cardinality(active) <= 1
    /\ active # {} => pc = "chat"
    /\ pc \in {"keys", "clients", "ui", "validate"} =>
           /\ agent = Nothing
           /\ lastResult = Nothing
           /\ toast = Nothing
           /\ response = None
           /\ download = Nothing

\* A step moves along Idle -> Validating -> Running -> Complete/Error; the
\* agent of a run starts with an empty session; a new script run starts
\* with nothing of the last one.
C10_Step ==
    /\ <<Phase, Phase'>> \in AllowedPhaseSteps
    /\ (pc = "validate" /\ pc' = "chat") => agent' = [calls |-> 0, failed |-> 0]
    /\ (pc # "keys" /\ pc' = "keys") => FreshRun'

====
